---- MODULE Spec2Model ----
(***************************************************************************)
(* A model of bpt.py: the loaders that walk a year directory for zip       *)
(* archives, the field renamer, the data loader and the construction of a  *)
(* BPT object.                                                             *)
(*                                                                         *)
(* A Python str is a sequence of one-character strings, so that            *)
(* `x in s`, s.endswith(x), s.split('/') and the iteration of a str are    *)
(* computed, not assumed.  A DataFrame is [cols, rows]: the column labels  *)
(* in order and the rows in order, each row the cells in column order.     *)
(* The bytes of an archive member are a token; ReadCsv turns a token into  *)
(* the DataFrame pandas parses from it.                                    *)
(***************************************************************************)
EXTENDS Integers, Sequences, FiniteSets, TLC

\* ------------------------------------------------------------------ bounds

\* The most files the year directory itself holds in the enumerated trees.
MaxFiles == 2

\* The most files its one subdirectory holds in the enumerated trees.
MaxSubFiles == 1

\* ----------------------------------------------------------------- strings

S_dictionary == <<"d","i","c","t","i","o","n","a","r","y">>

S_zip == <<".","z","i","p">>

S_csv == <<".","c","s","v">>

S_txt == <<".","t","x","t">>

S_ma == <<"_","m","a">>

S_2014 == <<"2","0","1","4">>

S_2015 == <<"2","0","1","5">>

S_NAME == <<"N","A","M","E">>

S_FIELD == <<"F","I","E","L","D">>

\* The worksheet tags 'ma_1' .. 'ma_7' of BPT.__init__.
Tag(n) == <<"m","a","_">> \o <<ToString(n)>>

Tags == [n \in 1..7 |-> Tag(n)]

\* 'BID ID (H-number, Plan ID, Segment ID)'
KeyCol == <<"B","I","D"," ","I","D"," ","(","H","-","n","u","m","b","e","r",",",
            " ","P","l","a","n"," ","I","D",","," ","S","e","g","m","e","n","t",
            " ","I","D",")">>

\* Python's `sub in s` on str.
StrIn(sub, s) ==
    \E i \in 0..(Len(s) - Len(sub)) : SubSeq(s, i + 1, i + Len(sub)) = sub

\* Python's s.endswith(suf).
EndsWith(s, suf) ==
    /\ Len(suf) <= Len(s)
    /\ SubSeq(s, Len(s) - Len(suf) + 1, Len(s)) = suf

\* Python's s.split(sep) for a one-character sep: the pieces between the
\* separators, empty pieces kept.
RECURSIVE SplitFrom(_, _, _, _)
SplitFrom(s, sep, i, piece) ==
    IF i > Len(s) THEN <<piece>>
    ELSE IF s[i] = sep THEN <<piece>> \o SplitFrom(s, sep, i + 1, <<>>)
    ELSE SplitFrom(s, sep, i + 1, Append(piece, s[i]))

Split(s, sep) == SplitFrom(s, sep, 1, <<>>)

\* years_for_exception = ['2014', '2015'];
\* any(x in dir_to_query for x in years_for_exception)
IsLegacy(dir) == StrIn(S_2014, dir) \/ StrIn(S_2015, dir)

\* ------------------------------------------------------------------ tables

\* A missing cell (NaN): no str, since every element of a str is one character.
NULL == <<"NaN">>

F1 == <<"F","1">>

F2 == <<"F","2">>

S_Region == <<"R","e","g","i","o","n">>

S_FIELD_TITLE == S_FIELD \o <<"_","T","I","T","L","E">>

S_FIELD_NOTE == S_FIELD \o <<"_","N","O","T","E">>

V(c) == <<c>>

\* What pd.read_csv parses from the bytes of a member, by the member's
\* content token.  The D tables are data dictionaries, the T tables worksheets,
\* the P tables per-county parts.
ReadCsv(token) ==
    CASE token = "D2" ->
           [cols |-> <<S_NAME, S_FIELD_TITLE>>,
            rows |-> << <<F1, KeyCol>>, <<F2, S_Region>> >>]
      [] token = "D1" ->
           [cols |-> <<S_NAME, S_FIELD_TITLE>>,
            rows |-> << <<F1, KeyCol>> >>]
      [] token = "D2x" ->
           [cols |-> <<S_NAME, S_FIELD_TITLE, S_FIELD_NOTE>>,
            rows |-> << <<F1, KeyCol, V("n")>>, <<F2, S_Region, V("m")>> >>]
      [] token = "TA" ->
           [cols |-> <<F1, F2>>,
            rows |-> << <<V("a"), V("x")>>, <<NULL, V("y")>>, <<V("c"), NULL>> >>]
      [] token = "TB" ->
           [cols |-> <<F2>>,
            rows |-> << <<V("x")>>, <<V("y")>> >>]
      [] token = "TC" ->
           [cols |-> <<F1, V("G")>>,
            rows |-> << <<NULL, V("p")>>, <<V("b"), V("q")>> >>]
      [] token = "PA" ->
           [cols |-> <<V("A")>>, rows |-> << <<V("1")>>, <<V("2")>> >>]
      [] token = "PB" ->
           [cols |-> <<V("B")>>, rows |-> << <<V("3")>>, <<V("4")>> >>]
      [] token = "PC" ->
           [cols |-> <<F1, V("C")>>,
            rows |-> << <<V("5"), V("6")>>, <<NULL, V("7")>> >>]

DictTokens == {"D2", "D1", "D2x"}

SheetTokens == {"TA", "TB", "TC"}

PartTokens == {"PA", "PB", "PC"}

\* The positions of the columns of t labelled c.
ColsNamed(t, c) == {j \in 1..Len(t.cols) : t.cols[j] = c}

Max(S) == CHOOSE x \in S : \A y \in S : y <= x

Min(S) == CHOOSE x \in S : \A y \in S : x <= y

\* ------------------------------------------------- replace_field_to_name

\* data_dict['NAME']: the cells of the column labelled NAME, in row order.
NameColumn(dd) ==
    LET j == Min(ColsNamed(dd, S_NAME))
    IN  [i \in 1..Len(dd.rows) |-> dd.rows[i][j]]

\* data_dict.columns.str.contains(pat='FIELD'): the positions, in order, of
\* the columns whose label contains FIELD.
RECURSIVE FieldColsFrom(_, _)
FieldColsFrom(dd, j) ==
    IF j > Len(dd.cols) THEN <<>>
    ELSE (IF StrIn(S_FIELD, dd.cols[j]) THEN <<j>> ELSE <<>>)
         \o FieldColsFrom(dd, j + 1)

FieldCols(dd) == FieldColsFrom(dd, 1)

\* data_dict.iloc[:, mask].squeeze(), then iterated by zip: squeeze drops
\* every axis of length one.  One row and one column leave the scalar cell,
\* and iterating a str gives its characters; one column leaves that column's
\* cells; one row leaves that row's cells; anything else stays a DataFrame,
\* whose iteration gives its column labels.
SqueezedItems(dd) ==
    LET fc == FieldCols(dd)
        n  == Len(dd.rows)
        k  == Len(fc)
    IN  IF n = 1 /\ k = 1
          THEN LET cell == dd.rows[1][fc[1]]
               IN  [i \in 1..Len(cell) |-> <<cell[i]>>]
        ELSE IF k = 1
          THEN [i \in 1..n |-> dd.rows[i][fc[1]]]
        ELSE IF n = 1
          THEN [j \in 1..k |-> dd.rows[1][fc[j]]]
        ELSE [j \in 1..k |-> dd.cols[fc[j]]]

\* dict(zip(names, items)) looked up at c: zip stops at the shorter of the
\* two, and a key given twice keeps its last value.
ZipLen(dd) ==
    IF Len(NameColumn(dd)) <= Len(SqueezedItems(dd))
    THEN Len(NameColumn(dd)) ELSE Len(SqueezedItems(dd))

MappingKeys(dd) == {NameColumn(dd)[i] : i \in 1..ZipLen(dd)}

MappingAt(dd, c) ==
    SqueezedItems(dd)[Max({i \in 1..ZipLen(dd) : NameColumn(dd)[i] = c})]

\* df.rename(columns=mapping): a new DataFrame, each label replaced by its
\* value in the mapping when it is a key, and kept otherwise.
replace_field_to_name(dd, df) ==
    [cols |-> [j \in 1..Len(df.cols) |->
                 IF df.cols[j] \in MappingKeys(dd)
                 THEN MappingAt(dd, df.cols[j]) ELSE df.cols[j]],
     rows |-> df.rows]

\* ------------------------------------------------------------ data_loader

\* renamed_df.dropna(subset=[KeyCol]) when the label exists: the rows with
\* no missing cell in the columns labelled KeyCol, in order.
RECURSIVE DropNaFrom(_, _, _)
DropNaFrom(rows, keys, i) ==
    IF i > Len(rows) THEN <<>>
    ELSE (IF \E j \in keys : rows[i][j] = NULL THEN <<>> ELSE <<rows[i]>>)
         \o DropNaFrom(rows, keys, i + 1)

DropNa(t) ==
    [cols |-> t.cols, rows |-> DropNaFrom(t.rows, ColsNamed(t, KeyCol), 1)]

\* ------------------------------------------------------ load_county_data

\* pd.concat(parts, axis=1) of tables with the default row index: the
\* columns side by side, over the union of the row indexes; a part shorter
\* than the longest is missing in the rows it lacks.
RECURSIVE ConcatCols(_, _)
ConcatCols(parts, i) ==
    IF i > Len(parts) THEN <<>> ELSE parts[i].cols \o ConcatCols(parts, i + 1)

RECURSIVE ConcatRow(_, _, _)
ConcatRow(parts, r, i) ==
    IF i > Len(parts) THEN <<>>
    ELSE (IF r <= Len(parts[i].rows) THEN parts[i].rows[r]
          ELSE [j \in 1..Len(parts[i].cols) |-> NULL])
         \o ConcatRow(parts, r, i + 1)

ConcatAxis1(parts) ==
    LET n == Max({Len(parts[i].rows) : i \in 1..Len(parts)})
    IN  [cols |-> ConcatCols(parts, 1),
         rows |-> [r \in 1..n |-> ConcatRow(parts, r, 1)]]

\* ------------------------------------------------------------- file system

\* A file of the tree: its name, whether it is a zip archive, and the
\* members of the archive in namelist() order, each a name and its bytes.
Member(n, d) == [name |-> n, data |-> d]

File(n, z, m) == [name |-> n, zip |-> z, members |-> m]

P_dict ==
    File(S_dictionary \o S_zip, TRUE,
         << Member(<<"n">> \o S_txt, "PA"), Member(<<"d">> \o S_csv, "D2") >>)

P_x ==
    File(<<"x">> \o S_ma \o <<"_","1">> \o S_zip, TRUE,
         << Member(Tag(1) \o S_txt, "TA"), Member(Tag(2) \o S_txt, "TB") >>)

P_y ==
    File(<<"y">> \o S_ma \o <<"_","2">> \o S_zip, TRUE,
         << Member(Tag(1) \o S_txt, "TC") >>)

P_5 ==
    File(Tag(5) \o S_zip, TRUE,
         << Member(<<"c">> \o S_txt, "PA"), Member(Tag(5) \o S_txt, "PC"),
            Member(<<"n">> \o S_csv, "PB") >>)

P_bpt ==
    File(<<"b">> \o S_ma \o S_zip, TRUE,
         [n \in 1..7 |-> Member(Tag(n) \o S_txt, IF n = 5 THEN "PC" ELSE "TA")])

P_note ==
    File(S_dictionary \o S_ma \o <<"_","5">> \o S_txt, FALSE, <<>>)

Pool == {P_dict, P_x, P_y, P_5, P_bpt, P_note}

\* The archive of worksheet n in a year directory of the usual layout.
P_sheet(n) ==
    IF n = 5 THEN P_5
    ELSE File(Tag(n) \o S_zip, TRUE, << Member(Tag(n) \o S_txt, "TA") >>)

FullDir == <<P_dict>> \o [n \in 1..7 |-> P_sheet(n)]

RemoveAt(s, i) == [j \in 1..(Len(s) - 1) |-> IF j < i THEN s[j] ELSE s[j + 1]]

\* The sequences of at most n files of the pool, no name twice.
Dirs(n) ==
    UNION {{d \in [1..k -> Pool] :
              \A i, j \in 1..k : i # j => d[i].name # d[j].name} : k \in 0..n}

\* The trees: the year directory's files, then its subdirectory's, in the
\* order os.walk yields them.
Trees ==
    {<<r, s>> : r \in Dirs(MaxFiles), s \in Dirs(MaxSubFiles)}
    \cup {<<FullDir, <<>>>>}
    \cup {<<RemoveAt(FullDir, i), <<>>>> : i \in 1..Len(FullDir)}

YearDirs ==
    { <<"a","/">> \o S_2014 \o <<"/">>,
      <<"a","/","2","0","1","6","/">>,
      <<"2","0","1","6">> }

\* ------------------------------------------------------------------- state

VARIABLES
    yeardir,    \* the path given by the caller
    tree,       \* the directory tree at that path
    entry,      \* the function the caller called
    fn,         \* the loader that is running
    worksheet,  \* its worksheet argument
    data_dict,  \* data_loader's data_dict argument, <<>> before it is known
    dfArg,      \* replace_field_to_name's df argument
    pc,         \* idle, walk, scan, returned, done, failed
    todo,       \* the names the walk has still to visit and open
    opened,     \* the ZipFile objects created: the root file each one reads
    open,       \* the ZipFile objects not closed
    zf,         \* the ZipFile the loader's local variable refers to, or 0
    df,         \* the loader's result variable: <<>> while unbound
    dfSrc,      \* where df was read from: <<root file, member>>
    county,     \* load_county_data's list of parts
    countySrc,  \* where each part was read from
    ret,        \* the value returned to the caller, <<>> before
    err,        \* the exception that reached the caller
    self,       \* the BPT object under construction
    slot,       \* the worksheet BPT.__init__ is loading
    bundle      \* the BPT object the caller holds, <<>> when none

vars ==
    <<yeardir, tree, entry, fn, worksheet, data_dict, dfArg, pc, todo, opened,
      open, zf, df, dfSrc, county, countySrc, ret, err, self, slot, bundle>>

NoSelf == [year |-> <<>>, data_dict |-> <<>>, ma |-> [n \in 1..7 |-> <<>>]]

Init ==
    /\ yeardir \in YearDirs
    /\ tree \in Trees
    /\ entry = "none"
    /\ fn = "none"
    /\ worksheet = <<>>
    /\ data_dict = <<>>
    /\ dfArg = <<>>
    /\ pc = "idle"
    /\ todo = <<>>
    /\ opened = <<>>
    /\ open = {}
    /\ zf = 0
    /\ df = <<>>
    /\ dfSrc = <<>>
    /\ county = <<>>
    /\ countySrc = <<>>
    /\ ret = <<>>
    /\ err = "none"
    /\ self = NoSelf
    /\ slot = 0
    /\ bundle = <<>>

\* ------------------------------------------------------------- the walk

\* os.walk(dir_to_query): the file names of every directory, top down.
RECURSIVE WalkFrom(_, _)
WalkFrom(t, d) ==
    IF d > Len(t) THEN <<>>
    ELSE [i \in 1..Len(t[d]) |-> t[d][i].name] \o WalkFrom(t, d + 1)

WalkNames(t) == WalkFrom(t, 1)

\* os.path.join(dir_to_query, file)
PathJoin(dir, file) ==
    IF dir = <<>> \/ dir[Len(dir)] = "/" THEN dir \o file
    ELSE dir \o <<"/">> \o file

\* The file a path os.path.join(dir_to_query, name) names: the entry of that
\* name in the year directory itself, 0 when it has none.
Resolve(t, name) ==
    LET hits == {i \in 1..Len(t[1]) : t[1][i].name = name}
    IN  IF hits = {} THEN 0 ELSE Min(hits)

\* Whether load_data_dict opens the file: its name matches 'dictionary' and
\* the joined path ends with '.zip'.
DictCandidate(dir, name) ==
    /\ StrIn(S_dictionary, name)
    /\ EndsWith(PathJoin(dir, name), S_zip)

\* load_sheet with the '_ma' rule applied to every year.
SheetCandidateAnyMa(dir, ws, name) == StrIn(S_ma, name)

\* load_sheet with the worksheet tag rule applied to every year.
SheetCandidateByTag(dir, ws, name) == StrIn(ws, name)

\* dir_of_interest of load_sheet: in a legacy year the names that contain
\* '_ma', otherwise those that contain the worksheet tag.
SheetCandidate(dir, ws, name) ==
    IF IsLegacy(dir) THEN StrIn(S_ma, name) ELSE StrIn(ws, name)

\* ma5_flag.search(obj) of load_county_data.
CountyCandidate(ws, name) == StrIn(ws, name)

IsCandidate(f, dir, ws, name) ==
    CASE f = "load_data_dict" -> DictCandidate(dir, name)
      [] f = "load_sheet" -> SheetCandidate(dir, ws, name)
      [] f = "load_county_data" -> CountyCandidate(ws, name)

Candidates(f, dir, t, ws) ==
    SelectSeq(WalkNames(t), LAMBDA name : IsCandidate(f, dir, ws, name))

\* ------------------------------------------------------------ the loaders

\* The loader f starts: its locals are fresh, the walk is ahead of it.  The
\* ZipFile objects of an earlier call are no longer referred to.
StartLoader(f, ws) ==
    /\ fn' = f
    /\ worksheet' = ws
    /\ todo' = Candidates(f, yeardir, tree, ws)
    /\ pc' = "walk"
    /\ zf' = 0
    /\ df' = <<>>
    /\ dfSrc' = <<>>
    /\ county' = <<>>
    /\ countySrc' = <<>>

\* An exception that BPT.__init__ would swallow, handing the caller the
\* object as far as it got.
RaiseSwallowed(e) ==
    /\ pc' = "failed"
    /\ err' = e
    /\ zf' = 0
    /\ bundle' = IF entry = "BPT" THEN <<self>> ELSE bundle
    /\ UNCHANGED <<yeardir, tree, entry, fn, worksheet, data_dict, dfArg, todo,
                   opened, open, df, dfSrc, county, countySrc, ret, self, slot>>

\* An exception leaves the running function and every caller: nothing in
\* bpt.py catches one.  The caller of BPT(...) gets no object.
Raise(e) ==
    /\ pc' = "failed"
    /\ err' = e
    /\ zf' = 0
    /\ UNCHANGED <<yeardir, tree, entry, fn, worksheet, data_dict, dfArg, todo,
                   opened, open, df, dfSrc, county, countySrc, ret, self, slot,
                   bundle>>

\* zipfile.ZipFile(os.path.join(dir_to_query, name), "r") on the next name of
\* the walk: the path names an entry of the year directory, wherever the
\* walk found the name.  The new object exists before the local variable
\* lets go of the one before.
OpenArchive ==
    /\ pc = "walk"
    /\ todo # <<>>
    /\ LET i == Resolve(tree, Head(todo))
       IN  IF i = 0 THEN Raise("FileNotFoundError")
           ELSE IF ~tree[1][i].zip THEN Raise("BadZipFile")
           ELSE /\ opened' = Append(opened, i)
                /\ open' = open \cup {Len(opened) + 1}
                /\ zf' = Len(opened) + 1
                /\ todo' = Tail(todo)
                /\ pc' = "scan"
                /\ UNCHANGED <<yeardir, tree, entry, fn, worksheet, data_dict,
                               dfArg, df, dfSrc, county, countySrc, ret, err,
                               self, slot, bundle>>

\* The members load_data_dict reads: those ending in '.csv'.
DictMember(m) == EndsWith(m.name, S_csv)

\* The members load_sheet reads: those whose name holds the worksheet tag.
SheetMember(ws, m) == StrIn(ws, m.name)

\* The members load_county_data collects: the '.txt' ones, and in a legacy
\* year only those whose name holds 'ma_5'.
CountyMember(dir, m) ==
    IF IsLegacy(dir) THEN StrIn(Tag(5), m.name) /\ EndsWith(m.name, S_txt)
    ELSE EndsWith(m.name, S_txt)

\* The positions, in namelist() order, of the members of file a that f reads.
Picked(f, dir, ws, a) ==
    SelectSeq([k \in 1..Len(a.members) |-> k],
              LAMBDA k : CASE f = "load_data_dict" -> DictMember(a.members[k])
                           [] f = "load_sheet" -> SheetMember(ws, a.members[k])
                           [] f = "load_county_data" ->
                                  CountyMember(dir, a.members[k]))

\* `with zmaobj as f:` closes the archive when the block is left; the other
\* two loaders never call close().
ClosedAfterScan(f, h, o) == IF f = "load_sheet" THEN o \ {h} ELSE o

\* The loop over namelist() of the archive just opened.  load_data_dict and
\* load_sheet assign each member they read to the one result variable;
\* load_county_data appends each to its list.
ScanArchive ==
    /\ pc = "scan"
    /\ LET i == opened[zf]
           a == tree[1][i]
           ks == Picked(fn, yeardir, worksheet, a)
       IN  /\ IF fn = "load_county_data"
                THEN /\ county' = county \o
                            [j \in 1..Len(ks) |-> ReadCsv(a.members[ks[j]].data)]
                     /\ countySrc' = countySrc \o
                            [j \in 1..Len(ks) |-> <<i, ks[j]>>]
                     /\ UNCHANGED <<df, dfSrc>>
                ELSE /\ IF ks = <<>> THEN UNCHANGED <<df, dfSrc>>
                        ELSE /\ df' = <<ReadCsv(a.members[ks[Len(ks)]].data)>>
                             /\ dfSrc' = <<i, ks[Len(ks)]>>
                     /\ UNCHANGED <<county, countySrc>>
           /\ open' = ClosedAfterScan(fn, zf, open)
    /\ pc' = "walk"
    /\ UNCHANGED <<yeardir, tree, entry, fn, worksheet, data_dict, dfArg, todo,
                   opened, zf, ret, err, self, slot, bundle>>

\* The value the loader returns once the walk is over.
LoaderValue ==
    IF fn = "load_county_data" THEN ConcatAxis1(county) ELSE df[1]

\* What the loader raises at its return instead: the result variable was
\* never assigned, or pd.concat got an empty list.
LoaderError ==
    IF fn = "load_county_data"
    THEN (IF county = <<>> THEN "ValueError" ELSE "none")
    ELSE (IF df = <<>> THEN "UnboundLocalError" ELSE "none")

\* The walk is over: `return data_dict`, `return df`, or pd.concat and
\* `return df`.  The loader's locals go with its frame.
LoaderReturn ==
    /\ pc = "walk"
    /\ todo = <<>>
    /\ IF LoaderError # "none" THEN Raise(LoaderError)
       ELSE /\ ret' = <<LoaderValue>>
            /\ pc' = IF entry = fn THEN "done" ELSE "returned"
            /\ zf' = 0
            /\ UNCHANGED <<yeardir, tree, entry, fn, worksheet, data_dict,
                           dfArg, todo, opened, open, df, dfSrc, county,
                           countySrc, err, self, slot, bundle>>

\* A ZipFile nothing refers to any more may be finalized, which closes it,
\* at any time the interpreter chooses, or never.
Finalize ==
    /\ \E h \in open :
          /\ h # zf
          /\ open' = open \ {h}
    /\ UNCHANGED <<yeardir, tree, entry, fn, worksheet, data_dict, dfArg, pc,
                   todo, opened, zf, df, dfSrc, county, countySrc, ret, err,
                   self, slot, bundle>>

\* ------------------------------------------------------------- data_loader

\* What replace_field_to_name raises: data_dict has no NAME column, or the
\* squeezed label is a lone missing cell, which zip cannot iterate.
RenameError(dd) ==
    IF ColsNamed(dd, S_NAME) = {} THEN "KeyError"
    ELSE IF Len(dd.rows) = 1 /\ Len(FieldCols(dd)) = 1
            /\ dd.rows[1][FieldCols(dd)[1]] = NULL THEN "TypeError"
    ELSE "none"

\* What data_loader raises after load_sheet returned df: the renamer's
\* error, or dropna's KeyError for a subset label that is no column.
DataLoaderError(dd, t) ==
    IF RenameError(dd) # "none" THEN RenameError(dd)
    ELSE IF ColsNamed(replace_field_to_name(dd, t), KeyCol) = {} THEN "KeyError"
    ELSE "none"

\* renamed_df.dropna(subset=['BID ID (H-number, Plan ID, Segment ID)'])
DataLoaderValue(dd, t) == DropNa(replace_field_to_name(dd, t))

\* self.ma_<n> = data_loader(...)
StoreSheet(s, n, t) == [s EXCEPT !.ma[n] = <<t>>]

\* load_sheet returned inside data_loader: rename, drop, return.  Inside
\* BPT.__init__ the result goes to the slot of the worksheet, and the next
\* worksheet follows; after ma_7 the caller holds the object.
DataLoaderFinish ==
    /\ pc = "returned"
    /\ fn = "load_sheet"
    /\ LET dd == data_dict[1]
           t == ret[1]
       IN  IF DataLoaderError(dd, t) # "none" THEN Raise(DataLoaderError(dd, t))
           ELSE IF entry = "data_loader"
             THEN /\ ret' = <<DataLoaderValue(dd, t)>>
                  /\ pc' = "done"
                  /\ UNCHANGED <<fn, worksheet, todo, zf, df, dfSrc, county,
                                 countySrc, self, slot, bundle>>
                  /\ UNCHANGED <<yeardir, tree, entry, data_dict, dfArg,
                                 opened, open, err>>
           ELSE IF slot = 7
             THEN /\ self' = StoreSheet(self, slot, DataLoaderValue(dd, t))
                  /\ bundle' = <<self'>>
                  /\ pc' = "done"
                  /\ UNCHANGED <<fn, worksheet, todo, zf, df, dfSrc, county,
                                 countySrc, ret, slot>>
                  /\ UNCHANGED <<yeardir, tree, entry, data_dict, dfArg,
                                 opened, open, err>>
           ELSE /\ self' = StoreSheet(self, slot, DataLoaderValue(dd, t))
                /\ slot' = slot + 1
                /\ StartLoader("load_sheet", Tags[slot + 1])
                /\ UNCHANGED <<ret, bundle>>
                /\ UNCHANGED <<yeardir, tree, entry, data_dict, dfArg,
                               opened, open, err>>

\* --------------------------------------------------------------------- BPT

\* self.year = yeardir.split('/')[-2]
YearOf(dir) == Split(dir, "/")[Len(Split(dir, "/")) - 1]

\* load_data_dict returned inside BPT.__init__: self.data_dict is set and
\* the first worksheet is loaded with it.
BPTDictLoaded ==
    /\ pc = "returned"
    /\ fn = "load_data_dict"
    /\ self' = [self EXCEPT !.data_dict = ret]
    /\ data_dict' = ret
    /\ slot' = 1
    /\ StartLoader("load_sheet", Tags[1])
    /\ UNCHANGED <<yeardir, tree, entry, dfArg, opened, open, ret, err, bundle>>

\* ---------------------------------------------------------------- the calls

\* load_data_dict(yeardir).  The tree of the model exists, so the assert on
\* os.path.exists passes.
CallLoadDataDict ==
    /\ pc = "idle"
    /\ entry' = "load_data_dict"
    /\ StartLoader("load_data_dict", <<>>)
    /\ UNCHANGED <<yeardir, tree, data_dict, dfArg, opened, open, ret, err,
                   self, slot, bundle>>

CallLoadSheet ==
    /\ pc = "idle"
    /\ entry' = "load_sheet"
    /\ \E n \in {1, 2} : StartLoader("load_sheet", Tags[n])
    /\ UNCHANGED <<yeardir, tree, data_dict, dfArg, opened, open, ret, err,
                   self, slot, bundle>>

\* worksheet has its default, "ma_5".
CallLoadCountyData ==
    /\ pc = "idle"
    /\ entry' = "load_county_data"
    /\ StartLoader("load_county_data", Tags[5])
    /\ UNCHANGED <<yeardir, tree, data_dict, dfArg, opened, open, ret, err,
                   self, slot, bundle>>

CallDataLoader ==
    /\ pc = "idle"
    /\ entry' = "data_loader"
    /\ \E n \in {1, 2} : StartLoader("load_sheet", Tags[n])
    /\ \E d \in DictTokens : data_dict' = <<ReadCsv(d)>>
    /\ UNCHANGED <<yeardir, tree, dfArg, opened, open, ret, err, self, slot,
                   bundle>>

\* replace_field_to_name(data_dict, df), a pure function: the call and its
\* return are one step, and the arguments are as they were.
CallReplaceFieldToName ==
    /\ pc = "idle"
    /\ entry' = "replace_field_to_name"
    /\ \E d \in DictTokens, t \in SheetTokens :
          /\ data_dict' = <<ReadCsv(d)>>
          /\ dfArg' = <<ReadCsv(t)>>
          /\ ret' = <<replace_field_to_name(ReadCsv(d), ReadCsv(t))>>
    /\ pc' = "done"
    /\ UNCHANGED <<yeardir, tree, fn, worksheet, todo, opened, open, zf, df,
                   dfSrc, county, countySrc, err, self, slot, bundle>>

\* BPT(yeardir): the year label, then the dictionary.
CallBPT ==
    /\ pc = "idle"
    /\ entry' = "BPT"
    /\ IF Len(Split(yeardir, "/")) < 2
         THEN /\ pc' = "failed"
              /\ err' = "IndexError"
              /\ UNCHANGED <<fn, worksheet, todo, zf, df, dfSrc, county,
                             countySrc, self>>
         ELSE /\ self' = [self EXCEPT !.year = YearOf(yeardir)]
              /\ StartLoader("load_data_dict", <<>>)
              /\ UNCHANGED err
    /\ UNCHANGED <<yeardir, tree, data_dict, dfArg, opened, open, ret, slot,
                   bundle>>

Next ==
    \/ CallLoadDataDict
    \/ CallLoadSheet
    \/ CallLoadCountyData
    \/ CallDataLoader
    \/ CallReplaceFieldToName
    \/ CallBPT
    \/ OpenArchive
    \/ ScanArchive
    \/ LoaderReturn
    \/ Finalize
    \/ DataLoaderFinish
    \/ BPTDictLoaded

Spec == Init /\ [][Next]_vars

\* ------------------------------------------------------------------ claims

Finished == pc \in {"done", "failed"}

\* The sequences of a sequence, one after the other.
RECURSIVE Flat(_)
Flat(ss) == IF ss = <<>> THEN <<>> ELSE Head(ss) \o Flat(Tail(ss))

\* The files of the tree where the walk finds them, in walk order.
WalkFiles == Flat(tree)

\* C1.  Construction is all or nothing: the caller holds a BPT object only
\* when construction ran to its end, and that object has its dictionary and
\* all seven worksheets; a failed construction carries its error and hands
\* out no object; and in a non-legacy year directory that lacks the archive
\* of some worksheet, construction ends failed.
C1_BundleAllOrNothing ==
    /\ bundle # <<>> =>
          /\ entry = "BPT" /\ pc = "done"
          /\ bundle[1].data_dict # <<>>
          /\ \A n \in 1..7 : bundle[1].ma[n] # <<>>
    /\ (entry = "BPT" /\ pc = "failed") => (bundle = <<>> /\ err # "none")
    /\ (/\ entry = "BPT"
        /\ Finished
        /\ ~IsLegacy(yeardir)
        /\ \E n \in 1..7 :
              \A i \in 1..Len(WalkFiles) : ~StrIn(Tags[n], WalkFiles[i].name))
       => (pc = "failed" /\ bundle = <<>>)

\* A construction that failed on the seventh worksheet, six slots filled.
C1_Witness ==
    /\ entry = "BPT" /\ pc = "failed" /\ slot = 7
    /\ \A n \in 1..6 : self.ma[n] # <<>>
    /\ self.ma[7] = <<>>
    /\ bundle = <<>>

\* C2.  In a non-legacy year directory the table load_sheet holds, and the
\* one it returns, was parsed from a member whose name contains the
\* worksheet tag, inside an archive whose file name contains the tag.
C2_SheetFromOwnTag ==
    (fn = "load_sheet" /\ ~IsLegacy(yeardir)) =>
       /\ df # <<>> =>
             /\ dfSrc # <<>>
             /\ StrIn(worksheet, tree[1][dfSrc[1]].name)
             /\ StrIn(worksheet, tree[1][dfSrc[1]].members[dfSrc[2]].name)
             /\ df[1] = ReadCsv(tree[1][dfSrc[1]].members[dfSrc[2]].data)
       /\ (entry = "load_sheet" /\ pc = "done") => (df # <<>> /\ ret = df)

\* load_sheet returned in a non-legacy directory that also holds an archive
\* of another tag with a member of the requested tag.
C2_Witness ==
    /\ entry = "load_sheet"
    /\ pc = "done"
    /\ ~IsLegacy(yeardir)
    /\ \E i \in 1..Len(tree[1]) :
          /\ ~StrIn(worksheet, tree[1][i].name)
          /\ \E k \in 1..Len(tree[1][i].members) :
                StrIn(worksheet, tree[1][i].members[k].name)

\* The names of the walk that contain '_ma', whatever the worksheet.
MaNames == SelectSeq(WalkNames(tree), LAMBDA name : StrIn(S_ma, name))

\* The members of the year directory's file i whose name contains the tag.
TagMembers(i, ws) ==
    {k \in 1..Len(tree[1][i].members) : StrIn(ws, tree[1][i].members[k].name)}

\* C3 as stated.  In a legacy year load_sheet returns the member of the
\* last archive of the walk whose name contains '_ma'.
C3_Original ==
    (entry = "load_sheet" /\ pc = "done" /\ IsLegacy(yeardir)) =>
       /\ MaNames # <<>>
       /\ tree[1][dfSrc[1]].name = MaNames[Len(MaNames)]
       /\ dfSrc[2] \in TagMembers(dfSrc[1], worksheet)

\* C3 amended.  In a legacy year load_sheet opens, in walk order, every
\* file whose name contains '_ma', whatever the worksheet, each as the entry
\* of that name in the year directory; the table it returns is the last
\* member whose name contains the tag in the last of these archives that has
\* such a member.
C3_LegacyLastMatchingMember ==
    (entry = "load_sheet" /\ pc = "done" /\ IsLegacy(yeardir)) =>
       /\ Len(opened) = Len(MaNames)
       /\ \A j \in 1..Len(MaNames) : opened[j] = Resolve(tree, MaNames[j])
       /\ LET with == {j \in 1..Len(MaNames) :
                         TagMembers(Resolve(tree, MaNames[j]), worksheet) # {}}
          IN  /\ with # {}
              /\ LET i == Resolve(tree, MaNames[Max(with)])
                     k == Max(TagMembers(i, worksheet))
                 IN  /\ dfSrc = <<i, k>>
                     /\ ret = <<ReadCsv(tree[1][i].members[k].data)>>

\* load_sheet returned, in a legacy year, a table of an archive that is not
\* the last one it opened.
C3_Witness ==
    /\ entry = "load_sheet" /\ pc = "done" /\ IsLegacy(yeardir)
    /\ Len(opened) >= 2
    /\ dfSrc[1] # opened[Len(opened)]

\* C4 as stated.  load_sheet fails with NoMatchFound, and with nothing else,
\* when the walk finds no candidate archive or none of the candidates has a
\* member whose name contains the tag.
C4_NoMatchFound ==
    (/\ entry = "load_sheet"
     /\ Finished
     /\ \A i \in 1..Len(WalkFiles) :
           SheetCandidate(yeardir, worksheet, WalkFiles[i].name) =>
              \A k \in 1..Len(WalkFiles[i].members) :
                 ~StrIn(worksheet, WalkFiles[i].members[k].name))
    => (pc = "failed" /\ err = "NoMatchFound")

\* C5 as stated.  At most one archive is open at any point of a load, and
\* none once the loader has returned or failed.
C5_HandlesScoped ==
    /\ Cardinality(open) <= 1
    /\ (entry \in {"load_data_dict", "load_sheet", "load_county_data"} /\ Finished)
       => open = {}

\* The tables load_county_data is to collect: from every file of the walk
\* whose name contains 'ma_5', the members it reads, in order.
CountyParts ==
    Flat([i \in 1..Len(WalkFiles) |->
            IF CountyCandidate(Tags[5], WalkFiles[i].name)
            THEN LET a == WalkFiles[i]
                     ks == Picked("load_county_data", yeardir, Tags[5], a)
                 IN  [j \in 1..Len(ks) |-> ReadCsv(a.members[ks[j]].data)]
            ELSE <<>>])

\* Tables of equal row count laid side by side.
SideBySide(parts) ==
    [cols |-> Flat([i \in 1..Len(parts) |-> parts[i].cols]),
     rows |-> [r \in 1..Len(parts[1].rows) |->
                 Flat([i \in 1..Len(parts) |-> parts[i].rows[r]])]]

\* C6 as stated.  The ma_5 table of a BPT object is the side-by-side
\* concatenation of the per-county tables found for the benchmark tag,
\* load_county_data's result, wherever the directory holds such tables.
C6_Ma5IsCountyConcat ==
    (bundle # <<>> /\ CountyParts # <<>>) =>
       bundle[1].ma[5] = <<ConcatAxis1(CountyParts)>>

\* C7 as stated.  In a non-legacy directory whose 'ma_5' archives hold
\* n >= 1 '.txt' members of equal row count, load_county_data returns the
\* n parts side by side in discovery order, the row count unchanged.
C7_CountyAllPartsInOrder ==
    (/\ entry = "load_county_data"
     /\ Finished
     /\ ~IsLegacy(yeardir)
     /\ \A i \in 1..Len(WalkFiles) :
           CountyCandidate(Tags[5], WalkFiles[i].name) => WalkFiles[i].zip
     /\ CountyParts # <<>>
     /\ \A i \in 1..Len(CountyParts) :
           Len(CountyParts[i].rows) = Len(CountyParts[1].rows))
    => (pc = "done" /\ ret = <<SideBySide(CountyParts)>>)

\* The rows of t whose cell in column j is not missing, in order.
RECURSIVE RowsWithKey(_, _)
RowsWithKey(rows, j) ==
    IF rows = <<>> THEN <<>>
    ELSE (IF Head(rows)[j] # NULL THEN <<Head(rows)>> ELSE <<>>)
         \o RowsWithKey(Tail(rows), j)

\* C8 as stated.  Once load_sheet has returned, data_loader returns the rows
\* of the renamed worksheet whose key is not missing, in order and
\* unchanged, and fails with KeyColumnMissing when the renamed worksheet has
\* no key column.
C8_DataLoaderDropsNullKeys ==
    (entry = "data_loader" /\ Finished /\ todo = <<>> /\ df # <<>>) =>
       LET r == replace_field_to_name(data_dict[1], df[1])
           js == ColsNamed(r, KeyCol)
       IN  IF js = {} THEN pc = "failed" /\ err = "KeyColumnMissing"
           ELSE /\ pc = "done"
                /\ ret = <<[cols |-> r.cols,
                            rows |-> RowsWithKey(r.rows, Min(js))]>>

\* The label the dictionary gives code c: the cell of its one FIELD column
\* in the row whose NAME is c.
LabelOf(dd, c) ==
    LET r == CHOOSE q \in 1..Len(dd.rows) : NameColumn(dd)[q] = c
    IN  dd.rows[r][FieldCols(dd)[1]]

\* C9 as stated.  With a dictionary of one FIELD column, the renamer gives
\* every column named by a dictionary code that code's label, leaves the
\* other columns' names alone, and keeps the number and order of the
\* columns and all cells.
C9_RenamerMapsCodesToLabels ==
    (entry = "replace_field_to_name" /\ pc = "done"
       /\ Len(FieldCols(data_dict[1])) = 1) =>
       LET dd == data_dict[1]
           t == dfArg[1]
           codes == {NameColumn(dd)[i] : i \in 1..Len(dd.rows)}
       IN  /\ Len(ret[1].cols) = Len(t.cols)
           /\ ret[1].rows = t.rows
           /\ \A j \in 1..Len(t.cols) :
                 ret[1].cols[j] = IF t.cols[j] \in codes
                                  THEN LabelOf(dd, t.cols[j]) ELSE t.cols[j]

\* C10 as stated.  When the only file named '...dictionary...' is a zip
\* archive in the subdirectory, load_data_dict returns the table of that
\* archive's '.csv' member.
C10_DictionaryInSubdirectory ==
    (/\ entry = "load_data_dict"
     /\ Finished
     /\ \A i \in 1..Len(tree[1]) : ~StrIn(S_dictionary, tree[1][i].name)
     /\ Len(tree[2]) = 1
     /\ StrIn(S_dictionary, tree[2][1].name)
     /\ EndsWith(tree[2][1].name, S_zip)
     /\ tree[2][1].zip
     /\ \E k \in 1..Len(tree[2][1].members) : DictMember(tree[2][1].members[k]))
    => /\ pc = "done"
       /\ LET a == tree[2][1]
              k == Max({k \in 1..Len(a.members) : DictMember(a.members[k])})
          IN  ret = <<ReadCsv(a.members[k].data)>>

====
